---- MODULE Spec2Model ----
(***************************************************************************)
(* The orchestrator of the solver node (solver_server.py), its workers     *)
(* (sub_servers/*.py) and the local forwarding proxy (local.py).           *)
(*                                                                         *)
(* Strings that the code concatenates or prefix-tests (server names, tool  *)
(* names, qualified names) are sequences of one-character strings, so that *)
(* f"{server}::{tool}" is a concatenation and str.startswith a prefix      *)
(* test.  JSON values are sequences too: zero or more dict layers followed *)
(* by a leaf.  The layer "result" is a dict whose only key is "result";    *)
(* the layer "structuredContent+" is a CallToolResult mapping (content,    *)
(* structuredContent, isError) whose tracked child is structuredContent.   *)
(***************************************************************************)
EXTENDS Integers, Sequences, FiniteSets, TLC

\* ------------------------------------------------------------------ bounds

\* Number of entries in manifest.json.
NWorkers == 2

\* ------------------------------------------------------------- name pools

Sep == <<":", ":">>

\* Names a manifest key or a worker's FastMCP(name=...) can take.  The code
\* puts no restriction on either, so one name of the pool holds the separator.
NamePool == << <<"a">>, <<"b">>, <<"a", ":", ":", "b">>, <<"c">> >>

ServerNames == {NamePool[1], NamePool[2], NamePool[3]}

\* Raw tool names of the workers (add, generate_random, query_nba_stats).
ToolT == <<"t">>
ToolU == <<"u">>
ToolNames == {ToolT, ToolU}

\* The tool lists a worker can expose, in the order list_tools returns them.
Catalogs == {<< >>, <<ToolT>>, <<ToolT, ToolU>>}

\* The arguments of a tool call: accepted by the tool, or rejected by it.
ArgKinds == {"good", "bad"}

Workers == 1..NWorkers

\* ------------------------------------------------------------------ state

VARIABLES
    server_configs,   \* manifest.json: index -> key, in file order
    server_info,      \* index -> the name the worker reports in its handshake
    catalog,          \* index -> the tools the worker exposes
    pc,               \* position of app_lifespan
    idx,              \* loop index of app_lifespan's current loop
    sub_processes,    \* launched index -> state of the Popen child
    sessions,         \* connected index -> state of the session's own child
    tools,            \* session_group.tools with _tool_to_session, in insertion order
    spawned,          \* the processes started so far, in order, each with who holds its pipes
    error,            \* the call whose exception left app_lifespan, if one did
    stopped,          \* index -> what the shutdown loop did to the Popen child
    last,             \* the last Router or Proxy call and what its caller got
    uw,               \* a remote result and what the Proxy's unwrap rule makes of it
    pipeline,         \* a Pipeline, its PipelineContext and where Pipeline.process is
    node,             \* a SolverNode and where its run and process_rfd are
    listener          \* an RFDListener and where its listen_for_rfds is

vars == <<server_configs, server_info, catalog, pc, idx, sub_processes,
          sessions, tools, spawned, error, stopped, last, uw,
          pipeline, node, listener>>

\* The solver node's side of the repository (pipeline.py, solverNode.py,
\* rfdListener.py), which shares nothing with the orchestrator.
solver == <<pipeline, node, listener>>

config == <<server_configs, server_info, catalog>>

\* ---------------------------------------------------------------- helpers

Range(s) == {s[i] : i \in DOMAIN s}

StartsWith(s, prefix) ==
    /\ Len(s) >= Len(prefix)
    /\ SubSeq(s, 1, Len(prefix)) = prefix

\* Whether the token sequence part occurs in msg as a contiguous run.
Contains(msg, part) ==
    \E k \in 0..(Len(msg) - Len(part)) : SubSeq(msg, k + 1, k + Len(part)) = part

\* ------------------------------------------------------ the tool registry

\* name_hook: the key a worker's component gets in the session group.
name_hook(component_name, server_name) == server_name \o Sep \o component_name

\* The keys of session_group.tools.
ToolKeys == {tools[k].qualified_name : k \in DOMAIN tools}

\* The entries connect_to_server adds for worker w: one per tool of its
\* catalog, keyed by name_hook, holding the tool itself (raw name) and the
\* session the tool was listed on.
Aggregated(w) ==
    [k \in DOMAIN catalog[w] |->
        [qualified_name |-> name_hook(catalog[w][k], server_info[w]),
         name |-> catalog[w][k],
         session |-> w]]

\* connect_to_server refuses a worker one of whose keys is already in the
\* group (McpError "already exist in group tools").
Collides(w) ==
    \E k \in DOMAIN catalog[w] :
        name_hook(catalog[w][k], server_info[w]) \in ToolKeys

\* ------------------------------------------------------------ app_lifespan

NoCall ==
    [op |-> "none", via |-> "none", server |-> << >>, tool |-> << >>,
     http |-> "none", remote |-> "none", resp |-> "none",
     outcome |-> "none", value |-> << >>, items |-> << >>, msg |-> << >>,
     sent |-> {}, posts |-> << >>]

\* No Pipeline, SolverNode or RFDListener has been constructed.
NoPipeline == [pc |-> "none"]

NoNode == [pc |-> "none"]

NoListener == [pc |-> "none"]

\* No remote result is being unwrapped.
NoUnwrap == [in |-> << >>, once |-> << >>, twice |-> << >>, step |-> 0]

Init ==
    /\ server_configs = [i \in Workers |-> NamePool[i]]
    /\ server_info \in [Workers -> ServerNames]
    /\ catalog \in [Workers -> Catalogs]
    /\ pc = "spawn"
    /\ idx = 1
    /\ sub_processes = << >>
    /\ sessions = << >>
    /\ tools = << >>
    /\ spawned = << >>
    /\ error = "none"
    /\ stopped = << >>
    /\ last = NoCall
    /\ uw = NoUnwrap
    /\ pipeline = NoPipeline
    /\ node = NoNode
    /\ listener = NoListener

\* No call is being answered: `last` holds a call from the step that makes it
\* until its caller has taken the answer, and nothing else happens in between
\* (a handler runs to its end on the event loop).
Idle == last = NoCall

\* Every session of the group is closed when the `async with` block is left.
CloseAll == [w \in DOMAIN sessions |-> "closed"]

\* Lines 48-59, one iteration: the worker is launched with Popen and its
\* handle kept under the manifest key.
LaunchWorker ==
    /\ Idle
    /\ pc = "spawn"
    /\ idx <= NWorkers
    /\ sub_processes' = sub_processes @@ (idx :> "running")
    /\ spawned' = Append(spawned, [worker |-> idx, pipes |-> "sub_processes"])
    /\ IF idx = NWorkers
          THEN pc' = "connect" /\ idx' = 1
          ELSE pc' = "spawn" /\ idx' = idx + 1
    /\ UNCHANGED <<config, uw, solver, error, stopped, sessions, tools, last>>

\* Mutant of LaunchFails: the failure is noted and the loop goes on to the
\* next manifest entry.
LaunchFailsSkipped ==
    /\ Idle
    /\ pc = "spawn"
    /\ idx <= NWorkers
    /\ error' = "Popen"
    /\ IF idx = NWorkers
          THEN pc' = "connect" /\ idx' = 1
          ELSE pc' = "spawn" /\ idx' = idx + 1
    /\ UNCHANGED <<config, uw, solver, spawned, stopped, sub_processes, sessions, tools, last>>

\* Line 57 raises (the command cannot be executed): app_lifespan ends there.
LaunchFails ==
    /\ Idle
    /\ pc = "spawn"
    /\ idx <= NWorkers
    /\ pc' = "failed"
    /\ error' = "Popen"
    /\ UNCHANGED <<config, uw, solver, spawned, stopped, idx, sub_processes, sessions, tools, last>>

\* Mutant of ConnectToServer: the context is yielded as soon as one worker
\* is connected.
ConnectToServerYieldsEarly ==
    /\ Idle
    /\ pc = "connect"
    /\ idx <= NWorkers
    /\ spawned' = Append(spawned, [worker |-> idx, pipes |-> "session"])
    /\ IF Collides(idx)
          THEN /\ pc' = "failed"
               /\ error' = "already_exist"
               /\ sessions' = CloseAll
               /\ UNCHANGED <<idx, tools>>
          ELSE /\ tools' = tools \o Aggregated(idx)
               /\ sessions' = sessions @@ (idx :> "open")
               /\ pc' = "serving"
               /\ UNCHANGED <<idx, error>>
    /\ UNCHANGED <<config, uw, solver, stopped, sub_processes, last>>

\* Lines 66-67, one iteration: connect_to_server starts the worker again
\* from its StdioServerParameters, initializes the session and adds the
\* worker's tools to the group; a key that is already there raises, which
\* leaves the `async with` block and app_lifespan.
ConnectToServer ==
    /\ Idle
    /\ pc = "connect"
    /\ idx <= NWorkers
    /\ spawned' = Append(spawned, [worker |-> idx, pipes |-> "session"])
    /\ IF Collides(idx)
          THEN /\ pc' = "failed"
               /\ error' = "already_exist"
               /\ sessions' = CloseAll
               /\ UNCHANGED <<idx, tools>>
          ELSE /\ tools' = tools \o Aggregated(idx)
               /\ sessions' = sessions @@ (idx :> "open")
               /\ IF idx = NWorkers
                     THEN pc' = "serving" /\ idx' = idx
                     ELSE pc' = "connect" /\ idx' = idx + 1
               /\ UNCHANGED error
    /\ UNCHANGED <<config, uw, solver, stopped, sub_processes, last>>

\* Line 67 raises (the worker does not start or does not answer initialize).
ConnectFails ==
    /\ Idle
    /\ pc = "connect"
    /\ idx <= NWorkers
    /\ pc' = "failed"
    /\ error' = "connect_to_server"
    /\ sessions' = CloseAll
    /\ UNCHANGED <<config, uw, solver, spawned, stopped, idx, sub_processes, tools, last>>

\* The server stops: app_lifespan resumes after the yield of line 71, leaves
\* the `async with` block and reaches the loop of line 75.
ServingEnds ==
    /\ Idle
    /\ pc = "serving"
    /\ pc' = "terminate"
    /\ idx' = 1
    /\ sessions' = CloseAll
    /\ UNCHANGED <<config, uw, solver, spawned, error, stopped, sub_processes, tools, last>>

\* The server stops with an exception raised at the yield of line 71: the
\* `async with` block is left and the exception leaves app_lifespan.
ServingRaises ==
    /\ Idle
    /\ pc = "serving"
    /\ pc' = "failed"
    /\ error' = "serving"
    /\ sessions' = CloseAll
    /\ UNCHANGED <<config, uw, solver, spawned, stopped, idx, sub_processes, tools, last>>

\* The server stops and leaving the `async with` block raises (closing a
\* session failed): the exception leaves app_lifespan at line 65-71.
CloseRaises ==
    /\ Idle
    /\ pc = "serving"
    /\ pc' = "failed"
    /\ error' = "aexit"
    /\ sessions' = CloseAll
    /\ UNCHANGED <<config, uw, solver, spawned, stopped, idx, sub_processes, tools, last>>

\* Line 77, 79 or 81 raises something other than TimeoutExpired at line 79:
\* nothing catches it and it leaves the loop and app_lifespan.
TerminateRaises ==
    /\ Idle
    /\ pc = "terminate"
    /\ idx <= NWorkers
    /\ pc' = "failed"
    /\ error' = "terminate"
    /\ UNCHANGED <<config, uw, solver, spawned, stopped, idx, sub_processes, sessions, tools, last>>

\* Mutant of KillNeeded: the child is killed without waiting for it.
KillAlways(delay) == TRUE

\* proc.wait(timeout=2), line 79.
GracePeriod == 2

\* The longest a child takes to exit once terminate() was called on it.
MaxDelay == 3

\* Lines 78-81: wait raises TimeoutExpired, and the child is killed, when it
\* has not exited within the timeout.
KillNeeded(delay) == delay > GracePeriod

\* The time from terminate() to the child's exit: none if it had exited.
Delays(w) == IF sub_processes[w] = "running" THEN 1..MaxDelay ELSE {0}

\* Lines 75-81, one iteration: terminate, wait up to 2 seconds, kill.
TerminateWorker ==
    /\ Idle
    /\ pc = "terminate"
    /\ idx <= NWorkers
    /\ \E delay \in Delays(idx) :
        /\ stopped' = stopped @@ (idx :>
              [delay |-> delay,
               calls |-> IF KillNeeded(delay) THEN <<"terminate", "wait", "kill">>
                         ELSE <<"terminate", "wait">>])
        /\ sub_processes' = [sub_processes EXCEPT ![idx] =
              IF @ # "running" THEN @
              ELSE IF KillNeeded(delay) THEN "killed" ELSE "terminated"]
    /\ IF idx = NWorkers
          THEN pc' = "done" /\ idx' = idx
          ELSE pc' = "terminate" /\ idx' = idx + 1
    /\ UNCHANGED <<config, uw, solver, spawned, error, sessions, tools, last>>

\* A launched worker process exits on its own (crash, or killed from outside).
ProcessExits ==
    \E w \in DOMAIN sub_processes :
        /\ Idle
        /\ sub_processes[w] = "running"
        /\ sub_processes' = [sub_processes EXCEPT ![w] = "exited"]
        /\ UNCHANGED <<config, uw, solver, spawned, error, stopped, pc, idx, sessions, tools, last>>

\* The worker process behind an open session exits on its own.
SessionWorkerExits ==
    \E w \in DOMAIN sessions :
        /\ Idle
        /\ sessions[w] = "open"
        /\ sessions' = [sessions EXCEPT ![w] = "dead"]
        /\ UNCHANGED <<config, uw, solver, spawned, error, stopped, pc, idx, sub_processes, tools, last>>

\* --------------------------------------------------- the Router's handlers

\* What a handler gives its caller: outcome "ok" with a value (a list value
\* is the leaf "list" with its elements in items), or the exception raised.
Returned(value, items) ==
    [outcome |-> "ok", value |-> value, items |-> items, msg |-> << >>,
     sent |-> {}, resp |-> "none"]

Raised(exception, msg) ==
    [outcome |-> exception, value |-> << >>, items |-> << >>, msg |-> msg,
     sent |-> {}, resp |-> "none"]

\* Mutant of ServerInfoList: only the entries whose process is running.
RunningServerInfoList ==
    LET ix == SelectSeq([i \in DOMAIN server_configs |-> i],
                        LAMBDA i : i \in DOMAIN sub_processes
                                     /\ sub_processes[i] = "running")
    IN  [k \in DOMAIN ix |-> server_configs[ix[k]]]

\* discover_mcp_servers, lines 124-129: one ServerInfo per manifest entry.
ServerInfoList == [i \in DOMAIN server_configs |-> server_configs[i]]

discover_mcp_servers == Returned(<<"list">>, ServerInfoList)

\* find_mcp_tools, lines 159-169: the tools whose key starts with the
\* prefix, each under its own (raw) name.
Prefix(server_name) == server_name \o Sep

HasPrefix(entry, server_name) ==
    StartsWith(entry.qualified_name, Prefix(server_name))

found_tools(server_name) ==
    LET hits == SelectSeq(tools, LAMBDA e : HasPrefix(e, server_name))
    IN  [k \in DOMAIN hits |-> hits[k].name]

\* Lines 170-171.
NoToolsFound(server_name) == found_tools(server_name) = << >>

find_mcp_tools(server_name) ==
    IF NoToolsFound(server_name)
    THEN Raised("ValueError",
                <<"No server found with name '">> \o server_name
                    \o <<"' or it has no tools.">>)
    ELSE Returned(<<"list">>, found_tools(server_name))

\* Mutant of qualified_tool_name: the tool is looked up under its raw name.
raw_tool_name_only(server_name, tool_name) == tool_name

\* use_mcp_tool, lines 202-203.
qualified_tool_name(server_name, tool_name) == server_name \o Sep \o tool_name

\* Mutant of ToolRegistered: the membership test of line 204 is left out.
ToolNotChecked(q) == TRUE

\* Line 204.
ToolRegistered(q) == q \in ToolKeys

\* session_group.call_tool looks the session up under the same key.
SessionOf(q) ==
    (CHOOSE k \in DOMAIN tools : tools[k].qualified_name = q)

\* What a worker answers to tools/call: the tool's value, an error result
\* when the tool rejects the arguments, and for a worker that has exited
\* either a closed-connection error or nothing at all.
Answers(q, arg) ==
    IF q \notin ToolKeys THEN {"none"}
    ELSE IF sessions[tools[SessionOf(q)].session] = "open"
         THEN {IF arg = "good" THEN "value" ELSE "error"}
         ELSE {"closed", "hang"}

\* The answers over all arguments the caller can pass.
AnyAnswer(q) == UNION {Answers(q, arg) : arg \in ArgKinds}

\* The value the worker's tool computes (add(2, 3)).
ToolOutput == <<"5">>

\* The structuredContent of the worker's CallToolResult: the workers' tools
\* are declared `-> int` and `-> str`, whose value is carried as
\* {"result": value}; an error result carries none.
structuredContent(resp) ==
    IF resp = "value" THEN <<"result">> \o ToolOutput ELSE <<"null">>

\* Lines 209-211: the call is forwarded and result.structuredContent returned.
Forwarded(q, resp) ==
    LET w == tools[SessionOf(q)].session
        r == CASE resp = "closed" -> Raised("McpError", <<"Connection closed">>)
               [] resp = "hang" -> Raised("hang", << >>)
               [] OTHER -> Returned(structuredContent(resp), << >>)
    IN  [r EXCEPT !.sent = {w}, !.resp = resp]

use_mcp_tool(server_name, tool_name, resp) ==
    LET q == qualified_tool_name(server_name, tool_name)
    IN  IF ~ToolRegistered(q)
        THEN Raised("ValueError",
                    <<"Tool '">> \o tool_name \o <<"' not found on server '">>
                        \o server_name \o <<"'.">>)
        ELSE IF q \notin ToolKeys
        THEN Raised("KeyError", q)
        ELSE Forwarded(q, resp)

\* A call made directly on the Router.
RouterCall(op, server_name, tool_name, r) ==
    [op |-> op, via |-> "router", server |-> server_name, tool |-> tool_name,
     http |-> "none", remote |-> r.outcome, resp |-> r.resp,
     outcome |-> r.outcome, value |-> r.value, items |-> r.items,
     msg |-> r.msg, sent |-> r.sent, posts |-> << >>]

RouterDiscover ==
    /\ Idle
    /\ pc = "serving"
    /\ last' = RouterCall("discover", << >>, << >>, discover_mcp_servers)
    /\ UNCHANGED <<config, uw, solver, spawned, error, stopped, pc, idx, sub_processes, sessions, tools>>

RouterFind ==
    /\ Idle
    /\ pc = "serving"
    /\ \E s \in ServerNames :
        last' = RouterCall("find", s, << >>, find_mcp_tools(s))
    /\ UNCHANGED <<config, uw, solver, spawned, error, stopped, pc, idx, sub_processes, sessions, tools>>

RouterUse ==
    /\ Idle
    /\ pc = "serving"
    /\ \E s \in ServerNames, t \in ToolNames :
        \E resp \in AnyAnswer(qualified_tool_name(s, t)) :
            last' = RouterCall("use", s, t, use_mcp_tool(s, t, resp))
    /\ UNCHANGED <<config, uw, solver, spawned, error, stopped, pc, idx, sub_processes, sessions, tools>>

\* ------------------------------------------------ the Proxy (local.py)

ORCHESTRATOR_URL == "http://localhost:8000/mcp"

\* The "result" member of the Router's JSON-RPC response to tools/call.  A
\* handler's return value travels as a CallToolResult whose structuredContent
\* is {"result": value} (the handlers are declared `-> Any` and `-> List`); an
\* exception of the handler travels as a CallToolResult with isError set and
\* the message as text content, with no structuredContent.
ToolResponse(r) ==
    IF r.outcome = "ok"
    THEN <<"structuredContent+", "result">> \o r.value
    ELSE <<"isError">>

\* Mutant of Unwrap: a mapping whose only key is "result" is opened whether or
\* not a structuredContent envelope was found around it.
UnwrapBareResult(result) ==
    LET inner == IF Len(result) > 1
                    /\ Head(result) \in {"structuredContent", "structuredContent+"}
                 THEN Tail(result)
                 ELSE result
    IN  IF Len(inner) > 1 /\ Head(inner) = "result" THEN Tail(inner) ELSE inner

\* Mutant of Unwrap: the two tests in the other order, a mapping whose only
\* key is "result" is opened first and a structuredContent envelope after it.
UnwrapResultFirst(result) ==
    LET inner == IF Len(result) > 1 /\ Head(result) = "result"
                 THEN Tail(result)
                 ELSE result
    IN  IF Len(inner) > 1
           /\ Head(inner) \in {"structuredContent", "structuredContent+"}
        THEN Tail(inner)
        ELSE inner

\* Lines 112-120.
Unwrap(result) ==
    IF Len(result) > 1 /\ Head(result) \in {"structuredContent", "structuredContent+"}
    THEN LET inner == Tail(result)
         IN  IF Len(inner) > 1 /\ Head(inner) = "result"
             THEN Tail(inner)
             ELSE inner
    ELSE result

\* Lines 100-101.
TransportError ==
    <<"Failed to communicate with orchestrator at ", ORCHESTRATOR_URL, ": ", "exc">>

\* Lines 103-104.
OrchestratorError == <<"Orchestrator error: ", "error">>

\* What the POST of line 97 can end with: a response with a result, a
\* RequestException (refused, timed out after 60 s, status >= 400, body not
\* JSON), or a response with an "error" member.  Nothing listens unless the
\* orchestrator is serving, and a handler that never returns times out.
HttpOutcomes(r) ==
    IF pc # "serving" \/ r.outcome = "hang"
    THEN {"transport_fail"}
    ELSE {"ok", "transport_fail", "error_field"}

\* Mutant of Posts: a POST that ends with a RequestException is sent again.
PostsWithRetry(http) ==
    IF http = "transport_fail" THEN <<http, http>> ELSE <<http>>

\* The POSTs one _call_orchestrator makes, each with how it ended: line 97
\* is the only one and is in no loop.
Posts(http) == <<http>>

\* _call_orchestrator, lines 96-120, for a request the Router answers with r.
_call_orchestrator(r, http) ==
    CASE http = "transport_fail" -> Raised("RuntimeError", TransportError)
      [] http = "error_field" -> Raised("RuntimeError", OrchestratorError)
      [] OTHER -> Returned(Unwrap(ToolResponse(r)), r.items)

\* A call made through the Proxy; r is what the Router's handler does with
\* the request if it gets there: it does when the response carries a result,
\* and when the request times out on a handler that never returns.
ProxyCall(op, server_name, tool_name, r, http) ==
    LET c == _call_orchestrator(r, http)
        reached == pc = "serving" /\ (http = "ok" \/ r.outcome = "hang")
    IN  [op |-> op, via |-> "proxy", server |-> server_name, tool |-> tool_name,
         http |-> http,
         remote |-> IF reached THEN r.outcome ELSE "none",
         resp |-> IF reached THEN r.resp ELSE "none",
         outcome |-> c.outcome, value |-> c.value, items |-> c.items,
         msg |-> c.msg,
         sent |-> IF reached THEN r.sent ELSE {},
         posts |-> Posts(http)]

ProxyDiscover ==
    /\ Idle
    /\ \E http \in HttpOutcomes(discover_mcp_servers) :
        last' = ProxyCall("discover", << >>, << >>, discover_mcp_servers, http)
    /\ UNCHANGED <<config, uw, solver, spawned, error, stopped, pc, idx, sub_processes, sessions, tools>>

ProxyFind ==
    /\ Idle
    /\ \E s \in ServerNames :
        \E http \in HttpOutcomes(find_mcp_tools(s)) :
            last' = ProxyCall("find", s, << >>, find_mcp_tools(s), http)
    /\ UNCHANGED <<config, uw, solver, spawned, error, stopped, pc, idx, sub_processes, sessions, tools>>

ProxyUse ==
    /\ Idle
    /\ \E s \in ServerNames, t \in ToolNames :
        \E resp \in AnyAnswer(qualified_tool_name(s, t)) :
            \E http \in HttpOutcomes(use_mcp_tool(s, t, resp)) :
                last' = ProxyCall("use", s, t, use_mcp_tool(s, t, resp), http)
    /\ UNCHANGED <<config, uw, solver, spawned, error, stopped, pc, idx, sub_processes, sessions, tools>>

\* The caller takes the answer of the last call.
CallReturns ==
    /\ ~Idle
    /\ last' = NoCall
    /\ UNCHANGED <<config, uw, solver, spawned, error, stopped, pc, idx, sub_processes, sessions, tools>>

\* ---------------------------------------------------------- specification

Next ==
    \/ LaunchWorker
    \/ LaunchFails
    \/ ConnectToServer
    \/ ConnectFails
    \/ ServingEnds
    \/ ServingRaises
    \/ CloseRaises
    \/ TerminateWorker
    \/ TerminateRaises
    \/ ProcessExits
    \/ SessionWorkerExits
    \/ RouterDiscover
    \/ RouterFind
    \/ RouterUse
    \/ ProxyDiscover
    \/ ProxyFind
    \/ ProxyUse
    \/ CallReturns

Spec == Init /\ [][Next]_vars

\* The orchestrator on its own, with clients that call the Router directly.
NextOrchestrator ==
    \/ LaunchWorker
    \/ LaunchFails
    \/ ConnectToServer
    \/ ConnectFails
    \/ ServingEnds
    \/ ServingRaises
    \/ CloseRaises
    \/ TerminateWorker
    \/ TerminateRaises
    \/ ProcessExits
    \/ SessionWorkerExits
    \/ RouterDiscover
    \/ RouterFind
    \/ RouterUse
    \/ CallReturns

SpecOrchestrator == Init /\ [][NextOrchestrator]_vars

\* --------------------------------- the unwrap rule of local.py on its own

\* The JSON values the rule is applied to: at most MaxDepth nested mappings
\* around a leaf.  A mapping is named by its keys: "structuredContent" and
\* "result" have that key only, "structuredContent+" and "result+" have
\* other keys beside it, "data" has neither key; the nested value is the
\* value of the key named, or of the only key of "data".
MaxDepth == 3

Layers == {"structuredContent", "structuredContent+", "result", "result+", "data"}

Leaves == {"5", "null"}

RECURSIVE LayerSeqs(_)
LayerSeqs(d) ==
    IF d = 0 THEN {<< >>}
    ELSE LET shorter == LayerSeqs(d - 1)
         IN  shorter \cup {<<l>> \o q : l \in Layers,
                                        q \in {x \in shorter : Len(x) = d - 1}}

JsonValues == {q \o <<leaf>> : q \in LayerSeqs(MaxDepth), leaf \in Leaves}

\* Is the value a mapping with a structuredContent key (line 116)?
IsEnvelope(v) ==
    Len(v) > 1 /\ Head(v) \in {"structuredContent", "structuredContent+"}

\* Is the value a mapping whose only key is "result" (line 118)?
IsSingleResult(v) == Len(v) > 1 /\ Head(v) = "result"

InitUnwrap ==
    /\ server_configs = [i \in Workers |-> NamePool[i]]
    /\ server_info = server_configs
    /\ catalog = [w \in Workers |-> << >>]
    /\ pc = "spawn"
    /\ idx = 1
    /\ sub_processes = << >>
    /\ sessions = << >>
    /\ tools = << >>
    /\ spawned = << >>
    /\ error = "none"
    /\ stopped = << >>
    /\ last = NoCall
    /\ \E v \in JsonValues :
        uw = [in |-> v, once |-> << >>, twice |-> << >>, step |-> 0]
    /\ pipeline = NoPipeline
    /\ node = NoNode
    /\ listener = NoListener

\* Lines 112-120 applied to data.get("result").
UnwrapOnce ==
    /\ uw.step = 0
    /\ uw' = [uw EXCEPT !.once = Unwrap(uw.in), !.step = 1]
    /\ UNCHANGED <<config, solver, pc, idx, sub_processes, sessions, tools, spawned,
                   error, stopped, last>>

\* Lines 112-120 applied to what they returned.
UnwrapAgain ==
    /\ uw.step = 1
    /\ uw' = [uw EXCEPT !.twice = Unwrap(uw.once), !.step = 2]
    /\ UNCHANGED <<config, solver, pc, idx, sub_processes, sessions, tools, spawned,
                   error, stopped, last>>

NextUnwrap ==
    \/ UnwrapOnce
    \/ UnwrapAgain

SpecUnwrap == InitUnwrap /\ [][NextUnwrap]_vars

\* ------------------------------------------------------------ pipeline.py

\* The orchestrator's variables, which the solver node's code leaves alone.
orchestrator == <<config, pc, idx, sub_processes, sessions, tools, spawned, error,
                  stopped, last, uw>>

\* The orchestrator not started, for the specifications of the solver node.
OrchestratorOff ==
    /\ server_configs = [i \in Workers |-> NamePool[i]]
    /\ server_info = server_configs
    /\ catalog = [w \in Workers |-> << >>]
    /\ pc = "spawn"
    /\ idx = 1
    /\ sub_processes = << >>
    /\ sessions = << >>
    /\ tools = << >>
    /\ spawned = << >>
    /\ error = "none"
    /\ stopped = << >>
    /\ last = NoCall
    /\ uw = NoUnwrap

\* The longest list of stages a Pipeline is built with.
MaxStages == 4

\* PipelineStageType, lines 25-28, naming the stage class that writes it.
StageTypes == {"VALIDATION", "DATA_GENERATION", "STORAGE", "SUBMISSION"}

RECURSIVE StageLists(_)
StageLists(n) ==
    IF n = 0 THEN {<< >>}
    ELSE LET shorter == StageLists(n - 1)
         IN  shorter \cup {Append(q, t) : t \in StageTypes,
                                          q \in {x \in shorter : Len(x) = n - 1}}

\* What the stages read besides the context: the rfd's required fields
\* (line 89), MOCK_MODE (line 58), the provider given to DataGenerationStage
\* and what its generate_dataset does (lines 111, 136), and the credentials
\* in the environment (lines 165-167, 200-203).
Surroundings ==
    [rfd_valid : BOOLEAN, mock_mode : BOOLEAN, provider : {"None", "ok", "raises"},
     pinata : BOOLEAN, chain : BOOLEAN]

\* What dict.get returns for a missing key (line 47), written as a set to
\* stand beside the stage results.
None == {"None"}

\* PipelineContext, lines 41-51.  A stage result is the set of its keys.
add_stage_result(context, stage, result) ==
    [context EXCEPT !.stage_results =
        [t \in DOMAIN @ \cup {stage} |-> IF t = stage THEN result ELSE @[t]]]

get_stage_result(context, stage) ==
    IF stage \in DOMAIN context.stage_results
    THEN context.stage_results[stage]
    ELSE None

add_error(context, err) == [context EXCEPT !.errors = Append(@, err)]

\* ValidationStage.process, lines 92-99.
ValidationStage(context, env) ==
    IF ~env.rfd_valid
    THEN add_error(context, "Invalid RFD format")
    ELSE add_stage_result(context, "VALIDATION", {"valid"})

\* DataGenerationStage.validate, lines 108-112.
DataGenerationValid(context, env) ==
    /\ get_stage_result(context, "VALIDATION") # None
    /\ (env.provider # "None" \/ env.mock_mode)

\* DataGenerationStage.process, lines 114-141.
DataGenerationStage(context, env) ==
    IF ~DataGenerationValid(context, env)
    THEN add_error(context, "Cannot generate data: Invalid context or provider")
    ELSE IF env.mock_mode \/ env.provider = "ok"
         THEN add_stage_result(context, "DATA_GENERATION", {"data"})
         ELSE add_error(context, "Data generation failed")

\* Mutant of StorageValid: the stage stores whatever the context holds.
StorageAlwaysValid(context) == TRUE

\* StorageStage.validate, lines 146-147.
StorageValid(context) == get_stage_result(context, "DATA_GENERATION") # None

\* StorageStage.process, lines 149-177.
StorageStage(context, env) ==
    IF ~StorageValid(context)
    THEN add_error(context, "Cannot store data: No dataset generated")
    ELSE IF env.mock_mode \/ env.pinata
         THEN add_stage_result(context, "STORAGE", {"uri"})
         ELSE add_error(context, "Storage failed")

\* SubmissionStage.validate, lines 182-184.
SubmissionValid(context) ==
    LET storage_result == get_stage_result(context, "STORAGE")
    IN  storage_result # None /\ "uri" \in storage_result

\* SubmissionStage.process, lines 186-212.
SubmissionStage(context, env) ==
    IF ~SubmissionValid(context)
    THEN add_error(context, "Cannot submit solution: No storage URI")
    ELSE IF env.mock_mode \/ env.chain
         THEN add_stage_result(context, "SUBMISSION", {"tx_hash"})
         ELSE add_error(context, "Submission failed")

\* stage.process(context) for the stage class that writes `stage`.
StageProcess(stage, context, env) ==
    CASE stage = "VALIDATION" -> ValidationStage(context, env)
      [] stage = "DATA_GENERATION" -> DataGenerationStage(context, env)
      [] stage = "STORAGE" -> StorageStage(context, env)
      [] OTHER -> SubmissionStage(context, env)

\* Mutant of Breaks: the loop goes through all its stages.
NeverBreaks(context) == FALSE

\* Lines 234-236.
Breaks(context) == context.errors # << >>

\* A Pipeline over any list of stages and a context handed to process:
\* fresh, or with an error its caller had added.
InitPipeline ==
    /\ OrchestratorOff
    /\ node = NoNode
    /\ listener = NoListener
    /\ \E stages \in StageLists(MaxStages), env \in Surroundings,
          errors \in {<< >>, <<"earlier">>} :
        pipeline = [pc |-> "loop", stages |-> stages, env |-> env, pos |-> 1,
                    processed |-> << >>,
                    context |-> [stage_results |-> << >>, errors |-> errors],
                    given |-> [stage_results |-> << >>, errors |-> errors]]

\* Pipeline.process, lines 230-236, one iteration, on a stage of class `stage`.
Iteration(stage) ==
    /\ pipeline.pc = "loop"
    /\ pipeline.pos <= Len(pipeline.stages)
    /\ pipeline.stages[pipeline.pos] = stage
    /\ LET after == StageProcess(stage, pipeline.context, pipeline.env)
       IN  pipeline' = [pipeline EXCEPT
               !.context = after,
               !.processed = Append(@, pipeline.pos),
               !.pos = @ + 1,
               !.pc = IF Breaks(after) THEN "returned" ELSE "loop"]
    /\ UNCHANGED <<orchestrator, node, listener>>

ProcessValidation == Iteration("VALIDATION")

ProcessDataGeneration == Iteration("DATA_GENERATION")

ProcessStorage == Iteration("STORAGE")

ProcessSubmission == Iteration("SUBMISSION")

\* Line 238, reached with the list exhausted.
PipelineReturns ==
    /\ pipeline.pc = "loop"
    /\ pipeline.pos > Len(pipeline.stages)
    /\ pipeline' = [pipeline EXCEPT !.pc = "returned"]
    /\ UNCHANGED <<orchestrator, node, listener>>

NextPipeline ==
    \/ ProcessValidation
    \/ ProcessDataGeneration
    \/ ProcessStorage
    \/ ProcessSubmission
    \/ PipelineReturns

SpecPipeline == InitPipeline /\ [][NextPipeline]_vars

\* ---------------------------------------------------------- solverNode.py

Modes == {"production", "test", "mock"}

\* What process_rfd and run meet outside the node: what has_nft does
\* (nftAuthorizer.py 62-91), what solve_rfd returns (dataSolver.py 211-243:
\* the path of a file, a path with no file behind it, None, or it raises),
\* what upload_to_ipfs does (ipfsUploader.py 13-77), what submit_solution
\* returns (submitSolution.py 55-94), and whether sample_rfd.json is there.
World ==
    [nft : {"owns", "none", "raises"},
     solve : {"file", "no_file", "None", "raises"},
     upload : {"ok", "raises"},
     submit : {"tx_hash", "None"},
     sample : BOOLEAN]

\* SolverNode.__init__, lines 57-63 and 111-112: the attributes the methods
\* read.  No line of the class assigns self.listener.
SolverNode(mode) ==
    [mode |-> mode,
     authorizer |-> mode = "production",
     submitter |-> mode = "production",
     has_listener |-> FALSE]

InitNode ==
    /\ OrchestratorOff
    /\ pipeline = NoPipeline
    /\ listener = NoListener
    /\ \E mode \in Modes, world \in World :
        node = [pc |-> "idle", self |-> SolverNode(mode), world |-> world,
                run |-> "idle", steps |-> << >>]

\* process_rfd is called: by run (lines 207, 220), by main.py (line 59), or
\* as the listener's callback (line 232).
ProcessRfdCalled ==
    /\ node.pc = "idle"
    /\ node.run \in {"idle", "listening"}
    /\ node' = [node EXCEPT !.pc = "authorize"]
    /\ UNCHANGED <<orchestrator, pipeline, listener>>

\* run, lines 199-232: in mock and test mode it reads sample_rfd.json and
\* calls process_rfd; in production mode it calls self.listener's
\* listen_for_rfds, and reading an attribute that was never assigned raises
\* AttributeError.
Run ==
    /\ node.pc = "idle"
    /\ node.run = "idle"
    /\ node' =
         IF node.self.mode \in {"mock", "test"}
         THEN IF node.world.sample
              THEN [node EXCEPT !.run = "processing", !.pc = "authorize"]
              ELSE [node EXCEPT !.run = "returned"]
         ELSE IF ~node.self.authorizer
              THEN [node EXCEPT !.run = "RuntimeError"]
              ELSE IF ~node.self.has_listener
                   THEN [node EXCEPT !.run = "AttributeError"]
                   ELSE [node EXCEPT !.run = "listening"]
    /\ UNCHANGED <<orchestrator, pipeline, listener>>

\* How process_rfd ends for its caller: run catches what it raises (lines
\* 212-214, 225-227).
Ends(n, how) ==
    [n EXCEPT !.pc = how,
              !.run = IF @ = "processing" THEN "returned" ELSE @]

\* Mutant of Authorized: a wallet goes on whatever has_nft returned.
AuthorizedAlways(n) == TRUE

\* Line 140: the node goes on when it has no authorizer or the wallet owns
\* the NFT.
Authorized(n) == ~n.self.authorizer \/ n.world.nft = "owns"

\* Lines 140-142.
Authorize ==
    /\ node.pc = "authorize"
    /\ LET called == IF node.self.authorizer
                     THEN [node EXCEPT !.steps = Append(@, "has_nft")]
                     ELSE node
       IN  node' =
             IF node.self.authorizer /\ node.world.nft = "raises"
             THEN Ends(called, "raised")
             ELSE IF Authorized(node)
                  THEN [called EXCEPT !.pc = "generate"]
                  ELSE Ends(called, "returned")
    /\ UNCHANGED <<orchestrator, pipeline, listener>>

\* Lines 145-172.
Generate ==
    /\ node.pc = "generate"
    /\ node' =
         IF node.self.mode = "mock"
         THEN [node EXCEPT !.steps = Append(@, "mock_dataset"), !.pc = "upload"]
         ELSE LET called == [node EXCEPT !.steps = Append(@, "solve_rfd")]
              IN  CASE node.world.solve = "raises" -> Ends(called, "raised")
                    [] node.world.solve = "None" ->
                         Ends(called, IF node.self.mode = "test"
                                      THEN "raised" ELSE "returned")
                    [] node.world.solve = "no_file" -> Ends(called, "returned")
                    [] OTHER -> [called EXCEPT !.pc = "upload"]
    /\ UNCHANGED <<orchestrator, pipeline, listener>>

\* Lines 175-184.
Upload ==
    /\ node.pc = "upload"
    /\ node' =
         IF node.self.mode = "mock"
         THEN [node EXCEPT !.steps = Append(@, "mock_uri"), !.pc = "submit"]
         ELSE IF ~node.self.submitter
              THEN [node EXCEPT !.pc = "submit"]
              ELSE LET called == [node EXCEPT !.steps = Append(@, "upload_to_ipfs")]
                   IN  IF node.world.upload = "raises"
                       THEN Ends(called, "returned")
                       ELSE [called EXCEPT !.pc = "submit"]
    /\ UNCHANGED <<orchestrator, pipeline, listener>>

\* Lines 187-197.
Submit ==
    /\ node.pc = "submit"
    /\ node' =
         IF node.self.mode = "mock"
         THEN Ends([node EXCEPT !.steps = Append(@, "mock_tx")], "returned")
         ELSE IF ~node.self.submitter
              THEN Ends(node, "returned")
              ELSE Ends([node EXCEPT !.steps = Append(@, "submit_solution")],
                        "returned")
    /\ UNCHANGED <<orchestrator, pipeline, listener>>

NextNode ==
    \/ ProcessRfdCalled
    \/ Run
    \/ Authorize
    \/ Generate
    \/ Upload
    \/ Submit

SpecNode == InitNode /\ [][NextNode]_vars

\* --------------------------------------------------------- rfdListener.py

\* The most events one get_new_entries returns, and the polls followed.
MaxBatch == 2

MaxPolls == 2

\* An RFDPosted event: one that goes through, one whose schema string is no
\* JSON (json.loads of line 46 raises), one on which the callback raises.
EventKinds == {"ok", "bad_schema", "callback_raises"}

RECURSIVE Batches(_)
Batches(n) ==
    IF n = 0 THEN {<< >>}
    ELSE LET shorter == Batches(n - 1)
         IN  shorter \cup {Append(q, k) : k \in EventKinds,
                                          q \in {x \in shorter : Len(x) = n - 1}}

\* listen_for_rfds up to line 37: the filter is created, nothing polled yet.
\* polled holds every event the polls returned, in order; called the numbers
\* (positions in polled) of the events the callback was called with.
InitListener ==
    /\ OrchestratorOff
    /\ pipeline = NoPipeline
    /\ node = NoNode
    /\ listener = [pc |-> "poll", polls |-> 0, polled |-> << >>, todo |-> << >>,
                   called |-> << >>, caught |-> 0]

\* Line 41: get_new_entries returns a batch and the for loop starts on it.
Poll ==
    /\ listener.pc = "poll"
    /\ listener.polls < MaxPolls
    /\ \E batch \in Batches(MaxBatch) :
        listener' = [listener EXCEPT
            !.pc = "batch",
            !.polls = @ + 1,
            !.polled = @ \o batch,
            !.todo = [i \in 1..Len(batch) |-> Len(listener.polled) + i]]
    /\ UNCHANGED <<orchestrator, pipeline, node>>

\* Line 41 raises (the node cannot be reached): caught at line 50.
PollRaises ==
    /\ listener.pc = "poll"
    /\ listener.polls < MaxPolls
    /\ listener' = [listener EXCEPT !.pc = "sleep", !.polls = @ + 1,
                                    !.caught = @ + 1]
    /\ UNCHANGED <<orchestrator, pipeline, node>>

\* Lines 42-49 for the next event of the batch.  An exception of line 46 or
\* of the callback is caught at line 50, outside the for loop: the rest of
\* the batch is dropped with it.
HandleEvent ==
    /\ listener.pc = "batch"
    /\ listener.todo # << >>
    /\ LET e == Head(listener.todo)
           kind == listener.polled[e]
       IN  listener' =
             CASE kind = "ok" ->
                    [listener EXCEPT !.called = Append(@, e), !.todo = Tail(@)]
               [] kind = "bad_schema" ->
                    [listener EXCEPT !.todo = << >>, !.pc = "sleep",
                                     !.caught = @ + 1]
               [] OTHER ->
                    [listener EXCEPT !.called = Append(@, e), !.todo = << >>,
                                     !.pc = "sleep", !.caught = @ + 1]
    /\ UNCHANGED <<orchestrator, pipeline, node>>

\* The for loop of line 41 is through its batch.
BatchDone ==
    /\ listener.pc = "batch"
    /\ listener.todo = << >>
    /\ listener' = [listener EXCEPT !.pc = "sleep"]
    /\ UNCHANGED <<orchestrator, pipeline, node>>

\* Line 52, and back to line 39.
Sleep ==
    /\ listener.pc = "sleep"
    /\ listener' = [listener EXCEPT !.pc = "poll"]
    /\ UNCHANGED <<orchestrator, pipeline, node>>

NextListener ==
    \/ Poll
    \/ PollRaises
    \/ HandleEvent
    \/ BatchDone
    \/ Sleep

SpecListener == InitListener /\ [][NextListener]_vars

\* ------------------------------------------------------------------ claims

Serving == pc = "serving"

\* The Router's handler ran for the last call (directly, or behind the Proxy).
Handled == last.remote # "none"

\* The registry entries with key q.
EntriesAt(q) == {k \in DOMAIN tools : tools[k].qualified_name = q}

\* The raw names of the tools listed on the sessions of the workers that
\* report the name server_name, in registry order.
OwnedTools(server_name) ==
    LET own == SelectSeq(tools, LAMBDA e : server_info[e.session] = server_name)
    IN  [k \in DOMAIN own |-> own[k].name]

\* Two distinct workers expose the raw tool t.
Shared(w1, w2, t) ==
    /\ w1 # w2
    /\ t \in Range(catalog[w1]) \cap Range(catalog[w2])

\* C1: while the orchestrator serves, two distinct connected workers that
\* expose the same raw tool name have two distinct registry keys, each listed
\* on its own worker's session; find_mcp_tools on a worker's name returns that
\* tool, and use_mcp_tool on a worker's name and that tool is sent to that
\* worker's session and to no other.
C1_NoCrossTalk ==
    Serving =>
        \A w1 \in Workers, w2 \in Workers, t \in ToolNames :
            Shared(w1, w2, t) =>
                LET q1 == name_hook(t, server_info[w1])
                    q2 == name_hook(t, server_info[w2])
                IN  /\ q1 # q2
                    /\ \A k \in EntriesAt(q1) :
                            tools[k].session = w1 /\ tools[k].name = t
                    /\ Cardinality(EntriesAt(q1)) = 1
                    /\ (last.op = "find" /\ Handled /\ last.server = server_info[w1])
                            => (last.remote = "ok" /\ t \in Range(last.items))
                    /\ (last.op = "use" /\ Handled /\ last.server = server_info[w1]
                            /\ last.tool = t)
                            => last.sent = {w1}

\* C1 witness: two workers share a tool and a use_mcp_tool call for the
\* first one's tool has been sent to the first one's session.
C1_Witness ==
    /\ Serving
    /\ \E w1 \in Workers, w2 \in Workers, t \in ToolNames :
        /\ Shared(w1, w2, t)
        /\ last.op = "use" /\ last.server = server_info[w1] /\ last.tool = t
        /\ last.sent = {w1}
        /\ last.resp = "value"

\* C2: while the orchestrator serves, every tool of every worker is in the
\* registry under the worker's manifest key, listed on that worker's session,
\* and find_mcp_tools on a manifest key of a worker with tools succeeds.
C2_ManifestNameKeys ==
    Serving =>
        \A w \in Workers :
            /\ \A t \in Range(catalog[w]) :
                \E k \in EntriesAt(name_hook(t, server_configs[w])) :
                    tools[k].session = w
            /\ (last.op = "find" /\ Handled /\ last.server = server_configs[w]
                    /\ catalog[w] # << >>)
                    => last.remote = "ok"

\* C3: when the worker's tool returned its value, the caller of use_mcp_tool
\* (at the Router and through the Proxy) receives exactly that value.
C3_RawOutput ==
    (last.op = "use" /\ last.resp = "value" /\ last.outcome = "ok")
        => last.value = ToolOutput

\* C4: a use_mcp_tool call whose qualified name is not a registry key ends
\* in the Router's own not-found error, which names the tool and the server,
\* and is sent to no worker session.
C4_NotFoundLocal ==
    (last.op = "use" /\ Handled
        /\ qualified_tool_name(last.server, last.tool) \notin ToolKeys)
        => /\ last.remote = "ValueError"
           /\ last.sent = {}
           /\ last.resp = "none"
           /\ last.via = "router" =>
                (Contains(last.msg, last.tool) /\ Contains(last.msg, last.server))

\* C4 witness: use_mcp_tool on the Router for a tool that a connected worker
\* of that name does not have has raised the not-found error.
C4_Witness ==
    /\ last.op = "use" /\ last.via = "router"
    /\ last.outcome = "ValueError"
    /\ \E w \in Workers : server_info[w] = last.server /\ catalog[w] # << >>
    /\ \E k \in DOMAIN tools : TRUE

\* C5: find_mcp_tools(server_name) on the Router raises the not-found error
\* naming the server when no registered tool belongs to a worker of that
\* name, and otherwise returns exactly that worker's tools, never none.
C5_FindOrNotFound ==
    (last.op = "find" /\ last.via = "router") =>
        IF OwnedTools(last.server) = << >>
        THEN last.outcome = "ValueError" /\ Contains(last.msg, last.server)
        ELSE /\ last.outcome = "ok"
             /\ last.items = OwnedTools(last.server)
             /\ last.items # << >>

C7_DiscoverOnlyRunning ==
    (last.op = "discover" /\ last.outcome = "ok") =>
        \A k \in DOMAIN last.items :
            \E w \in DOMAIN sub_processes :
                /\ server_configs[w] = last.items[k]
                /\ sub_processes[w] = "running"

\* C8: when the worker answered a forwarded call with an error result, the
\* Router's use_mcp_tool does not return normally.
C8_WorkerErrorSurfaces ==
    (last.op = "use" /\ last.resp = "error") => last.remote # "ok"

\* C9: a Proxy call whose request failed, whose response carried an error
\* member, or whose remote handler raised, raises RuntimeError.
C9_ProxyNeverSilent ==
    (last.via = "proxy"
        /\ (last.http # "ok" \/ last.remote \notin {"ok", "none"}))
        => last.outcome = "RuntimeError"

\* C10: the message of every RuntimeError of the Proxy holds the orchestrator
\* URL and the cause.
C10_ErrorNamesEndpoint ==
    (last.via = "proxy" /\ last.outcome = "RuntimeError") =>
        /\ ORCHESTRATOR_URL \in Range(last.msg)
        /\ Range(last.msg) \cap {"exc", "error"} # {}

\* C11: the unwrap rule opens recognized envelopes only.  A result that is
\* not a mapping with a structuredContent key comes back unchanged, a bare
\* {"result": X} included; inside a structuredContent envelope, the mapping
\* found there is opened only if "result" is its only key, and nothing below
\* that is opened.
C11_UnwrapOnlyEnvelopes ==
    uw.step >= 1 =>
        /\ ~IsEnvelope(uw.in) => uw.once = uw.in
        /\ IsEnvelope(uw.in) /\ ~IsSingleResult(Tail(uw.in))
               => uw.once = Tail(uw.in)
        /\ IsEnvelope(uw.in) /\ IsSingleResult(Tail(uw.in))
               => uw.once = Tail(Tail(uw.in))

\* A bare {"result": {"result": 5}} has been through the rule.
C11_Witness ==
    /\ uw.step >= 1
    /\ uw.in = <<"result", "result", "5">>
    /\ uw.once = uw.in

\* C12 as stated: unwrapping twice gives what unwrapping once gives, for
\* every result value.
C12_Idempotent == uw.step = 2 => uw.twice = uw.once

\* C12, amended: unwrapping twice gives what unwrapping once gives whenever
\* the value unwrapped once is not itself a mapping with a
\* structuredContent key.
C12_IdempotentOutsideEnvelopes ==
    uw.step = 2 /\ ~IsEnvelope(uw.once) => uw.twice = uw.once

\* {"structuredContent": {"result": {"result": 5}}} has been unwrapped twice:
\* the first pass leaves {"result": 5}, the second leaves it alone.
C12_Witness ==
    /\ uw.step = 2
    /\ uw.in = <<"structuredContent", "result", "result", "5">>
    /\ uw.once = <<"result", "5">>
    /\ uw.twice = uw.once

\* What the Router's handler of the last call does with the request, computed
\* from the orchestrator's state alone.
FreshAnswer ==
    CASE last.op = "discover" -> discover_mcp_servers
      [] last.op = "find" -> find_mcp_tools(last.server)
      [] OTHER -> use_mcp_tool(last.server, last.tool,
                               IF last.resp = "none"
                               THEN CHOOSE x \in AnyAnswer(
                                        qualified_tool_name(last.server, last.tool)) : TRUE
                               ELSE last.resp)

LifespanEnded == pc \in {"done", "failed"}

\* C14: no process leak.  Whichever way app_lifespan ends, no process it
\* launched is left running.
C14_NoProcessLeak ==
    LifespanEnded =>
        \A w \in DOMAIN sub_processes : sub_processes[w] # "running"

\* C15: normal shutdown.  Each launched process is first asked to terminate
\* and then waited for; it is killed exactly when it has not exited within
\* the grace period, so a process that exits in time is never killed; and
\* when the loop is over no launched process is running.
C15_GracefulThenKill ==
    /\ \A w \in DOMAIN stopped :
          /\ SubSeq(stopped[w].calls, 1, 2) = <<"terminate", "wait">>
          /\ Len(stopped[w].calls) <= 3
          /\ (Len(stopped[w].calls) = 3) = (stopped[w].delay > GracePeriod)
          /\ Len(stopped[w].calls) = 3 => stopped[w].calls[3] = "kill"
          /\ sub_processes[w] = "terminated" => stopped[w].delay \in 1..GracePeriod
          /\ sub_processes[w] = "killed" => stopped[w].delay > GracePeriod
          /\ sub_processes[w] # "running"
    /\ pc = "terminate" => DOMAIN stopped = 1..(idx - 1)
    /\ pc = "done" =>
          /\ DOMAIN stopped = DOMAIN sub_processes
          /\ \A w \in DOMAIN sub_processes : sub_processes[w] # "running"

\* Shutdown is over; one process exited in time and was not killed, another
\* outlived the grace period and was killed.
C15_Witness ==
    /\ pc = "done"
    /\ \E w1, w2 \in DOMAIN stopped :
          /\ sub_processes[w1] = "terminated"
          /\ stopped[w1].calls = <<"terminate", "wait">>
          /\ sub_processes[w2] = "killed"
          /\ stopped[w2].calls = <<"terminate", "wait", "kill">>

\* Every tool of every manifest worker is in the registry, on that worker's
\* session.
RegistryComplete ==
    \A w \in Workers :
        /\ w \in DOMAIN sessions
        /\ \A i \in DOMAIN catalog[w] :
              \E k \in DOMAIN tools :
                  /\ tools[k].session = w
                  /\ tools[k].name = catalog[w][i]
                  /\ tools[k].qualified_name
                        = name_hook(catalog[w][i], server_info[w])

\* C16: the orchestrator is ready only after every manifest worker is
\* connected and its catalog registered, so a Router request never sees the
\* registry of only some of the workers.
C16_ReadyOnlyWhenComplete ==
    /\ Serving => RegistryComplete
    /\ last.via = "router" => RegistryComplete

\* A Router find is answered with both workers' tools registered.
C16_Witness ==
    /\ last.via = "router"
    /\ last.op = "find"
    /\ last.outcome = "ok"
    /\ \A w \in Workers : \E k \in DOMAIN tools : tools[k].session = w

\* C17: use_mcp_tool never waits forever: a call to a worker that died or
\* does not answer ends with an error after a bounded wait.
C17_BoundedWait ==
    last.op = "use" /\ last.via = "router" => last.outcome # "hang"

\* The processes started for manifest entry w.
ProcessesOf(w) == {k \in DOMAIN spawned : spawned[k].worker = w}

\* C18: one process per manifest entry, the one kept in sub_processes, and
\* the session runs over that process's pipes.
C18_OneProcessPerEntry ==
    \A w \in Workers :
        /\ Cardinality(ProcessesOf(w)) <= 1
        /\ w \in DOMAIN sessions =>
              \E k \in ProcessesOf(w) : spawned[k].pipes = "sub_processes"
        /\ \A k \in ProcessesOf(w) : spawned[k].pipes = "sub_processes"

\* C19: every registry entry belongs to a worker that is alive with its
\* session open, and find_mcp_tools returns no tool of a worker that died or
\* whose session was closed.
C19_RegistryOnlyLive ==
    /\ Serving => \A k \in DOMAIN tools : sessions[tools[k].session] = "open"
    /\ last.op = "find" /\ last.remote = "ok" =>
          \A k \in DOMAIN tools :
              HasPrefix(tools[k], last.server)
                  => sessions[tools[k].session] = "open"

\* C20: startup fails fast.  When launching a worker fails, the exception
\* leaves app_lifespan, no later worker is launched or connected, and the
\* orchestrator is not and never becomes ready.
C20_SpawnFailsFast ==
    error = "Popen" =>
        /\ pc = "failed"
        /\ DOMAIN sub_processes = 1..(idx - 1)
        /\ \A k \in DOMAIN spawned : spawned[k].worker < idx
        /\ sessions = << >>
        /\ tools = << >>
        /\ last.remote = "none"

\* Launching the second worker failed after the first was launched.
C20_Witness ==
    /\ error = "Popen"
    /\ idx = 2
    /\ DOMAIN sub_processes = {1}
    /\ pc = "failed"

\* C21: shutdown goes on past a worker that cannot be stopped.  When stopping
\* a worker raised, every later worker has still been through the
\* terminate step by the time the lifespan has ended.
C21_TerminateAllDespiteError ==
    LifespanEnded /\ error = "terminate" =>
        \A w \in DOMAIN sub_processes : w > idx => w \in DOMAIN stopped

\* C22: shutdown order.  No launched process is sent a termination request
\* while a session is still open, and the processes are terminated even
\* when closing the sessions raised.
C22_SessionsThenProcesses ==
    /\ stopped # << >> => \A w \in DOMAIN sessions : sessions[w] # "open"
    /\ LifespanEnded /\ error = "aexit" => DOMAIN stopped = DOMAIN sub_processes

\* Registry keys are unique.
UniqueKeys ==
    \A j, k \in DOMAIN tools :
        tools[j].qualified_name = tools[k].qualified_name => j = k

\* C23: a catalog entry whose qualified name is already registered is
\* skipped: startup is not aborted by it, and registry keys stay unique.
C23_DuplicateSkipped ==
    /\ error # "already_exist"
    /\ UniqueKeys

\* The name under which the worker of a registry entry registered.
Owner(k) == server_info[tools[k].session]

\* C24: find_mcp_tools(S) selects only entries of the worker named S.
C24_FindOnlyOwned ==
    last.op = "find" /\ last.remote = "ok" =>
        \A k \in DOMAIN tools :
            HasPrefix(tools[k], last.server) => Owner(k) = last.server

\* C25: every name find_mcp_tools(S) returns is a raw tool name, and
\* use_mcp_tool(S, name, ...) finds it in the registry on a worker named S.
C25_ReturnedNamesUsable ==
    last.op = "find" /\ last.remote = "ok" =>
        \A i \in DOMAIN last.items :
            LET q == qualified_tool_name(last.server, last.items[i])
            IN  /\ ~StartsWith(last.items[i], Prefix(last.server))
                /\ ToolRegistered(q)
                /\ Owner(SessionOf(q)) = last.server

\* The stage results a context holds.
HasResult(stage) == get_stage_result(pipeline.context, stage) # None

\* C27: Pipeline.process takes the stages in list order and stops at the
\* first one that records an error: the stages processed are the first ones
\* of the list, none of them but the last left an error in the context, and
\* a context given without errors comes back with at most one.
C27_StopsAtFirstError ==
    pipeline.pc \in {"loop", "returned"} =>
        /\ pipeline.processed = [i \in 1..Len(pipeline.processed) |-> i]
        /\ Len(pipeline.processed) <= Len(pipeline.stages)
        /\ pipeline.pc = "loop" => pipeline.context.errors = pipeline.given.errors
        /\ Len(pipeline.context.errors) > Len(pipeline.given.errors)
               => pipeline.pc = "returned"
        /\ pipeline.given.errors = << >> => Len(pipeline.context.errors) <= 1
        /\ pipeline.pc = "returned" /\ pipeline.context.errors = << >>
               => Len(pipeline.processed) = Len(pipeline.stages)

\* A pipeline of at least three stages has returned after its second stage
\* recorded the only error.
C27_Witness ==
    /\ pipeline.pc = "returned"
    /\ Len(pipeline.stages) >= 3
    /\ pipeline.processed = <<1, 2>>
    /\ pipeline.given.errors = << >>
    /\ Len(pipeline.context.errors) = 1

IsPrefix(p, q) == Len(p) <= Len(q) /\ p = SubSeq(q, 1, Len(p))

\* The outside calls of process_rfd, in the order the claim gives them.
StepOrder(mode) ==
    CASE mode = "production" ->
             <<"has_nft", "solve_rfd", "upload_to_ipfs", "submit_solution">>
      [] mode = "test" -> <<"solve_rfd">>
      [] OTHER -> <<"mock_dataset", "mock_uri", "mock_tx">>

\* C29: process_rfd authorizes, generates, uploads and submits in that
\* order, and each step gates the rest: in production mode nothing is
\* generated for a wallet without the NFT, nothing is uploaded when the
\* dataset file is missing, and nothing is submitted when the upload failed.
C29_StepsGateEachOther ==
    node.pc # "none" =>
        /\ IsPrefix(node.steps, StepOrder(node.self.mode))
        /\ node.self.mode = "production" =>
              /\ "solve_rfd" \in Range(node.steps) => node.world.nft = "owns"
              /\ "upload_to_ipfs" \in Range(node.steps) => node.world.solve = "file"
              /\ "submit_solution" \in Range(node.steps) => node.world.upload = "ok"

\* In production mode process_rfd has returned after has_nft said no, with
\* nothing generated, uploaded or submitted.
C29_Witness ==
    /\ node.pc = "returned"
    /\ node.self.mode = "production"
    /\ node.world.nft = "none"
    /\ node.steps = <<"has_nft">>

\* The events polled so far that can be handed to the callback: those whose
\* schema parses.
Deliverable ==
    SelectSeq([i \in 1..Len(listener.polled) |-> i],
              LAMBDA i : listener.polled[i] # "bad_schema")

\* C30: once a poll's batch has been gone through, every event polled so
\* far has been passed to the callback exactly once, in the order polled,
\* those that follow an event whose parsing or callback raised included;
\* and the loop goes on after such an exception.
C30_EveryEventDelivered ==
    /\ listener.pc \in {"sleep", "poll"} => listener.called = Deliverable
    /\ listener.pc # "none" => listener.pc \in {"poll", "batch", "sleep"}

====
